---- MODULE Spec2Model ----
(***************************************************************************)
(* Model of importa_foto_postgis_v6_Vid_Print_1Tab.py: process_all walks   *)
(* the mission folders of a base folder, extracts GPS coordinates from     *)
(* photos (EXIF) and videos (ffprobe location tag) and inserts one row per *)
(* geotagged file into drone_mission, skipping rows whose full_path is     *)
(* already there.                                                          *)
(*                                                                         *)
(* Names (file and folder names, tag strings) are sequences of one-        *)
(* character strings, so that startswith, lower, endswith and the regular  *)
(* expression are computed character by character.  A path is a sequence   *)
(* of names.  An optional value is <<>> (None / NULL) or <<v>>.            *)
(* Coordinates are exact rationals [num, den] instead of floats.           *)
(***************************************************************************)
EXTENDS Integers, Sequences, FiniteSets

VARIABLES
    listing,        \* os.listdir(base_folder): sequence of [name, isdir]
    tree,           \* directory name -> set of [root, name] files below it
    content,        \* full path -> what opening / probing the file yields
    missoes,        \* rows [id, nome] of the missoes table
    table_exists,   \* whether drone_mission has been created
    drone_mission,  \* rows of the drone_mission table
    next_id,        \* the SERIAL sequence of drone_mission.id
    pc,             \* position of the process: idle, loop, walk, done, crashed
    idx,            \* index in listing of the entry the for loop is at
    mission_id,     \* process_mission_media's mission_id
    todo,           \* files os.walk has not yielded yet
    data,           \* process_mission_media's data list
    run,            \* number of runs of process_all started
    edits,          \* number of upstream metadata changes so far
    trace,          \* this run's statements, extractor calls and raises
    before,         \* drone_mission as it was before the last INSERT
    history         \* per finished run: [rows, changed] (table at its end,
                    \* whether the folder changed since the previous run)

vars == <<listing, tree, content, missoes, table_exists, drone_mission,
          next_id, pc, idx, mission_id, todo, data, run, edits, trace,
          before, history>>

----------------------------------------------------------------------------
(* Bounds of the model *)

MaxRuns == 2
MaxEntries == 2
MaxEdits == 1

----------------------------------------------------------------------------
(* Optional values and rationals *)

None == <<>>
Some(v) == <<v>>

RECURSIVE Gcd(_, _)
Gcd(a, b) == IF b = 0 THEN a ELSE Gcd(b, a % b)

Abs(n) == IF n < 0 THEN -n ELSE n

\* the number n/d (d > 0), in lowest terms
Rat(n, d) ==
    LET g == Gcd(Abs(n), d)
    IN  [num |-> n \div g, den |-> d \div g]

----------------------------------------------------------------------------
(* Strings as character sequences *)

UpperChars == <<"A","B","C","D","E","F","G","H","I","J","K","L","M",
                "N","O","P","Q","R","S","T","U","V","W","X","Y","Z">>
LowerChars == <<"a","b","c","d","e","f","g","h","i","j","k","l","m",
                "n","o","p","q","r","s","t","u","v","w","x","y","z">>
Digits == <<"0","1","2","3","4","5","6","7","8","9">>

\* str.lower() on one character
LowerChar(c) ==
    IF \E k \in 1..26 : UpperChars[k] = c
    THEN LowerChars[CHOOSE k \in 1..26 : UpperChars[k] = c]
    ELSE c

\* str.lower()
lower(s) == [k \in 1..Len(s) |-> LowerChar(s[k])]

\* str.startswith(prefix)
startswith(s, prefix) ==
    /\ Len(prefix) <= Len(s)
    /\ SubSeq(s, 1, Len(prefix)) = prefix

\* str.endswith(suffix)
endswith(s, suffix) ==
    /\ Len(suffix) <= Len(s)
    /\ SubSeq(s, Len(s) - Len(suffix) + 1, Len(s)) = suffix

\* str.endswith(tuple of suffixes)
endswith_any(s, suffixes) == \E suf \in suffixes : endswith(s, suf)

PhotoSuffixes == { <<".","j","p","g">>, <<".","j","p","e","g">>, <<".","p","n","g">> }
VideoSuffixes == { <<".","m","p","4">>, <<".","m","o","v">>,
                   <<".","a","v","i">>, <<".","m","k","v">> }
MissionPrefix == <<"M","i","s","s","i","o","n">>

\* os.path.join(root, file)
join(root, file) == Append(root, file)

----------------------------------------------------------------------------
(* What a file yields: open() and exif.Image for the photo extractor, the   *)
(* ffprobe run and its stdout for the video extractor.                      *)
(*   readable : open(path, 'rb') and Image(file) succeed                    *)
(*   img      : the attributes of the exif Image                            *)
(*   ran      : subprocess.run started ffprobe                              *)
(*   json     : None when stdout is not JSON, else the parsed object        *)
(*              [format : optional [tags : optional [location : optional]]] *)

NoImg == [has_exif |-> FALSE, gps_latitude |-> None, gps_longitude |-> None,
          gps_latitude_ref |-> None, gps_longitude_ref |-> None,
          gps_altitude |-> None]

Gps(lat, lat_ref, lon, lon_ref, alt) ==
    [has_exif |-> TRUE, gps_latitude |-> lat, gps_longitude |-> lon,
     gps_latitude_ref |-> lat_ref, gps_longitude_ref |-> lon_ref,
     gps_altitude |-> alt]

Json(format) == Some([format |-> format])
Format(tags) == Some([tags |-> tags])
Tags(location) == Some([location |-> location])

\* an image file: ffprobe runs on it and reports a format without tags
ImageFile(img) == [readable |-> TRUE, img |-> img, ran |-> TRUE,
                   json |-> Json(Format(None))]
\* a video file: exif.Image finds no EXIF block in it
VideoFile(ran, json) == [readable |-> TRUE, img |-> NoImg, ran |-> ran,
                         json |-> json]
\* a file that cannot be opened: ffprobe prints an empty JSON object
Unreadable == [readable |-> FALSE, img |-> NoImg, ran |-> TRUE,
               json |-> Some([format |-> None])]

\* the outcome of a try block: an exception, or a returned value
Raised == [exc |-> TRUE, val |-> None]
Returned(v) == [exc |-> FALSE, val |-> v]

----------------------------------------------------------------------------
(* extract_gps_metadata_from_photo *)

\* sign * (t[0] + t[1] / 60 + t[2] / 3600)
DmsToDecimal(sign, t) == Rat(sign * (3600 * t[1] + 60 * t[2] + t[3]), 3600)

\* lat_sign with -1 for 'S' only
lat_sign_south(img) == IF img.gps_latitude_ref = Some("S") THEN -1 ELSE 1

lat_sign(img) == IF img.gps_latitude_ref = Some("N") THEN 1 ELSE -1
lon_sign(img) == IF img.gps_longitude_ref = Some("E") THEN 1 ELSE -1

\* the try block, lines 26-39
PhotoTry(c) ==
    IF ~c.readable THEN Raised
    ELSE LET img == c.img IN
         IF img.has_exif /\ img.gps_latitude # None /\ img.gps_longitude # None
         THEN LET lat == img.gps_latitude[1]
                  lon == img.gps_longitude[1]
                  alt == img.gps_altitude
              IN  IF \/ img.gps_latitude_ref = None     \* AttributeError
                     \/ img.gps_longitude_ref = None
                     \/ Len(lat) < 3 \/ Len(lon) < 3    \* IndexError
                  THEN Raised
                  ELSE Returned(Some(<<DmsToDecimal(lat_sign(img), lat),
                                       DmsToDecimal(lon_sign(img), lon),
                                       alt>>))
         ELSE Returned(None)

\* extract_gps_metadata_from_photo without the except clause
photo_without_except(c) == PhotoTry(c)

\* try / except Exception: return None
extract_gps_metadata_from_photo(c) ==
    IF PhotoTry(c).exc THEN Returned(None) ELSE PhotoTry(c)

----------------------------------------------------------------------------
(* extract_gps_metadata_from_video *)

IsDigit(ch) == \E k \in 1..10 : Digits[k] = ch
DigitVal(ch) == (CHOOSE k \in 1..10 : Digits[k] = ch) - 1

\* \d+ from position p, greedy: the position of the last digit (p - 1 if none)
RECURSIVE DigitsEnd(_, _)
DigitsEnd(s, p) ==
    IF p <= Len(s) /\ IsDigit(s[p]) THEN DigitsEnd(s, p + 1) ELSE p - 1

\* [+-]\d+\.\d+ from position p: the position of its last character, 0 if
\* there is no match
NumberEnd(s, p) ==
    IF p <= Len(s) /\ s[p] \in {"+", "-"}
    THEN LET a == DigitsEnd(s, p + 1) IN
         IF a >= p + 1 /\ a + 1 <= Len(s) /\ s[a + 1] = "."
         THEN LET b == DigitsEnd(s, a + 2) IN IF b >= a + 2 THEN b ELSE 0
         ELSE 0
    ELSE 0

\* re.match(r'([+-]\d+\.\d+)([+-]\d+\.\d+)', s): None, or the two groups
re_match(s) ==
    LET e1 == NumberEnd(s, 1) IN
    IF e1 = 0 THEN None
    ELSE LET e2 == NumberEnd(s, e1 + 1) IN
         IF e2 = 0 THEN None
         ELSE Some(<<SubSeq(s, 1, e1), SubSeq(s, e1 + 1, e2)>>)

RECURSIVE ToNat(_)
ToNat(ds) ==
    IF ds = <<>> THEN 0
    ELSE 10 * ToNat(SubSeq(ds, 1, Len(ds) - 1)) + DigitVal(ds[Len(ds)])

RECURSIVE Pow10(_)
Pow10(n) == IF n = 0 THEN 1 ELSE 10 * Pow10(n - 1)

\* float(text) for a text matching [+-]\d+\.\d+
float(text) ==
    LET dot  == CHOOSE k \in 1..Len(text) : text[k] = "."
        ip   == SubSeq(text, 2, dot - 1)
        fp   == SubSeq(text, dot + 1, Len(text))
        sign == IF text[1] = "-" THEN -1 ELSE 1
    IN  Rat(sign * (ToNat(ip) * Pow10(Len(fp)) + ToNat(fp)), Pow10(Len(fp)))

\* the try block, lines 47-68
VideoTry(c) ==
    IF ~c.ran THEN Raised                          \* subprocess.run raises
    ELSE IF c.json = None THEN Raised              \* json.loads raises
    ELSE LET metadata == c.json[1] IN
         IF metadata.format = None THEN Raised     \* KeyError 'format'
         ELSE LET format == metadata.format[1] IN
              IF format.tags # None /\ format.tags[1].location # None
              THEN LET match == re_match(format.tags[1].location[1]) IN
                   IF match # None
                   THEN Returned(Some(<<float(match[1][1]),
                                        float(match[1][2]), None>>))
                   ELSE Returned(None)
              ELSE Returned(None)

\* try / except Exception: return None
extract_gps_metadata_from_video(c) ==
    IF VideoTry(c).exc THEN Returned(None) ELSE VideoTry(c)

----------------------------------------------------------------------------
(* The statements, extractor calls and raises of a run, in order *)

Ev(op, mission, path, result) ==
    [op |-> op, mission |-> mission, path |-> path, result |-> result]

----------------------------------------------------------------------------
(* process_all and process_mission_media *)

\* base_folder, a path of one name
base_folder == << <<"C", ":">> >>

\* is_mission_folder with the prefix compared without regard to case
is_mission_folder_anycase(entry) ==
    entry.isdir /\ startswith(lower(entry.name), lower(MissionPrefix))

\* line 144: os.path.isdir(mission_path) and mission.startswith("Mission")
is_mission_folder(entry) ==
    entry.isdir /\ startswith(entry.name, MissionPrefix)

\* media_class without file.lower()
media_class_case_sensitive(file) ==
    IF endswith_any(file, PhotoSuffixes) THEN "photo"
    ELSE IF endswith_any(file, VideoSuffixes) THEN "video"
    ELSE "ignored"

\* lines 105 and 110: the if / elif on the lower-cased file name
media_class(file) ==
    IF endswith_any(lower(file), PhotoSuffixes) THEN "photo"
    ELSE IF endswith_any(lower(file), VideoSuffixes) THEN "video"
    ELSE "ignored"

\* the extractor the walker calls on a file of a class
extract(class, c) ==
    IF class = "photo" THEN extract_gps_metadata_from_photo(c)
    ELSE extract_gps_metadata_from_video(c)

\* line 104, for a file [root, name] below the mission folder
full_path_of(mission, f) == join(<<base_folder[1], mission>> \o f.root, f.name)

\* os.walk is top-down: a directory's files come before those of the
\* directories below it; the order within a directory is not fixed
IsProperPrefix(a, b) ==
    Len(a) < Len(b) /\ SubSeq(b, 1, Len(a)) = a
walk_next(f) ==
    /\ f \in todo
    /\ \A g \in todo : ~IsProperPrefix(g.root, f.root)

\* lines 124-130: the row sent for one element of data
row_of(d) ==
    [full_path |-> d[1], file_name |-> d[2], media_type |-> d[3],
     altitude |-> d[6],
     geom |-> [srid |-> 4326, x |-> d[5], y |-> d[4]],
     mission_id |-> d[7]]

with_id(id, r) ==
    [id |-> id, full_path |-> r.full_path, file_name |-> r.file_name,
     media_type |-> r.media_type, altitude |-> r.altitude, geom |-> r.geom,
     mission_id |-> r.mission_id]

\* conflicts for a table whose unique key is (full_path, mission_id)
conflicts_per_mission(rows, r) ==
    \E t \in rows : t.full_path = r.full_path /\ t.mission_id = r.mission_id

\* ON CONFLICT (full_path) DO NOTHING: whether the row r is skipped
conflicts(rows, r) == \E t \in rows : t.full_path = r.full_path

\* insert_values with ON CONFLICT (full_path) DO UPDATE
RECURSIVE insert_values_update(_, _, _)
insert_values_update(rows, nid, values) ==
    IF values = <<>> THEN [rows |-> rows, next_id |-> nid, error |-> FALSE]
    ELSE LET r == row_of(Head(values)) IN
         IF \A m \in missoes : m.id # r.mission_id
         THEN [rows |-> rows, next_id |-> nid + 1, error |-> TRUE]
         ELSE IF conflicts(rows, r)
         THEN LET old == CHOOSE t \in rows : t.full_path = r.full_path IN
              insert_values_update((rows \ {old}) \cup {with_id(old.id, r)},
                                   nid + 1, Tail(values))
         ELSE insert_values_update(rows \cup {with_id(nid, r)}, nid + 1,
                                   Tail(values))

\* INSERT INTO drone_mission ... VALUES rows ON CONFLICT (full_path) DO
\* NOTHING, row by row: the id default is drawn from the sequence for every
\* proposed row; a row that is inserted must reference a missoes row
RECURSIVE insert_values(_, _, _)
insert_values(rows, nid, values) ==
    IF values = <<>> THEN [rows |-> rows, next_id |-> nid, error |-> FALSE]
    ELSE LET r == row_of(Head(values)) IN
         IF conflicts(rows, r)
         THEN insert_values(rows, nid + 1, Tail(values))
         ELSE IF \A m \in missoes : m.id # r.mission_id
         THEN [rows |-> rows, next_id |-> nid + 1, error |-> TRUE]
         ELSE insert_values(rows \cup {with_id(nid, r)}, nid + 1, Tail(values))

\* the table and the edit count when a run ends
HistoryAtEnd == Append(history, [rows |-> drone_mission, edits |-> edits])

\* Start without the call of create_drone_mission_table
Start_NoCreate ==
    /\ pc \in {"idle", "done", "crashed"}
    /\ run < MaxRuns
    /\ run' = run + 1
    /\ trace' = <<>>
    /\ pc' = "loop"
    /\ idx' = 1
    /\ mission_id' = None
    /\ todo' = {}
    /\ data' = <<>>
    /\ UNCHANGED <<listing, tree, content, missoes, table_exists,
                   drone_mission, next_id, edits, before, history>>

\* lines 136-139: connect, CREATE TABLE IF NOT EXISTS, commit
Start ==
    /\ pc \in {"idle", "done", "crashed"}
    /\ run < MaxRuns
    /\ run' = run + 1
    /\ table_exists' = TRUE
    /\ trace' = <<Ev("create", None, None, None)>>
    /\ pc' = "loop"
    /\ idx' = 1
    /\ mission_id' = None
    /\ todo' = {}
    /\ data' = <<>>
    /\ UNCHANGED <<listing, tree, content, missoes, drone_mission, next_id,
                   edits, before, history>>

\* lines 142-144, condition false: the entry is skipped
SkipEntry ==
    /\ pc = "loop"
    /\ idx <= Len(listing)
    /\ ~is_mission_folder(listing[idx])
    /\ idx' = idx + 1
    /\ UNCHANGED <<listing, tree, content, missoes, table_exists,
                   drone_mission, next_id, pc, mission_id, todo, data, run,
                   edits, trace, before, history>>

\* LookupFound with the WHERE clause dropped: any row of missoes
LookupFound_AnyRow ==
    /\ pc = "loop"
    /\ idx <= Len(listing)
    /\ is_mission_folder(listing[idx])
    /\ \E m \in missoes :
         /\ mission_id' = Some(m.id)
         /\ trace' = Append(trace, Ev("select", Some(listing[idx].name),
                                      None, Some(m.id)))
    /\ todo' = tree[listing[idx].name]
    /\ data' = <<>>
    /\ pc' = "walk"
    /\ UNCHANGED <<listing, tree, content, missoes, table_exists,
                   drone_mission, next_id, idx, run, edits, before, history>>

\* lines 144-146 and 93-101: SELECT id FROM missoes WHERE nome = mission,
\* fetchone() returns a row
LookupFound ==
    /\ pc = "loop"
    /\ idx <= Len(listing)
    /\ is_mission_folder(listing[idx])
    /\ \E m \in missoes :
         /\ m.nome = listing[idx].name
         /\ mission_id' = Some(m.id)
         /\ trace' = Append(trace, Ev("select", Some(listing[idx].name),
                                      None, Some(m.id)))
    /\ todo' = tree[listing[idx].name]
    /\ data' = <<>>
    /\ pc' = "walk"
    /\ UNCHANGED <<listing, tree, content, missoes, table_exists,
                   drone_mission, next_id, idx, run, edits, before, history>>

\* lines 144-146 and 93-97: fetchone() returns None, ValueError is raised and
\* nothing catches it
LookupNotFound ==
    /\ pc = "loop"
    /\ idx <= Len(listing)
    /\ is_mission_folder(listing[idx])
    /\ \A m \in missoes : m.nome # listing[idx].name
    /\ trace' = trace \o
           <<Ev("select", Some(listing[idx].name), None, None),
             Ev("raise", Some(listing[idx].name), None, None)>>
    /\ pc' = "crashed"
    /\ history' = HistoryAtEnd
    /\ UNCHANGED <<listing, tree, content, missoes, table_exists,
                   drone_mission, next_id, idx, mission_id, todo, data, run,
                   edits, before>>

\* lines 102-114, one file of the walk
WalkFile ==
    /\ pc = "walk"
    /\ \E f \in todo :
         /\ walk_next(f)
         /\ todo' = todo \ {f}
         /\ LET mission   == listing[idx].name
                full_path == full_path_of(mission, f)
                class     == media_class(f.name)
                metadata  == extract(class, content[full_path])
            IN  IF class = "ignored"
                THEN UNCHANGED <<data, trace, pc, history>>
                ELSE IF metadata.exc
                THEN /\ trace' = Append(trace, Ev("raise", Some(mission),
                                                  Some(full_path), None))
                     /\ pc' = "crashed"
                     /\ history' = HistoryAtEnd
                     /\ UNCHANGED data
                ELSE /\ trace' = Append(trace, Ev(class, Some(mission),
                                                  Some(full_path), metadata.val))
                     /\ data' = IF metadata.val # None
                                THEN Append(data,
                                       <<full_path, f.name, class,
                                         metadata.val[1][1], metadata.val[1][2],
                                         metadata.val[1][3], mission_id[1]>>)
                                ELSE data
                     /\ UNCHANGED <<pc, history>>
    /\ UNCHANGED <<listing, tree, content, missoes, table_exists,
                   drone_mission, next_id, idx, mission_id, run, edits,
                   before>>

\* Persist without the "if data:" guard: the statement and the commit are
\* issued for an empty data list too
Persist_NoGuard ==
    /\ pc = "walk"
    /\ todo = {}
    /\ LET mission == listing[idx].name
           res     == insert_values(drone_mission, next_id, data)
       IN  /\ before' = drone_mission
           /\ drone_mission' = res.rows
           /\ next_id' = res.next_id
           /\ trace' = trace \o
                 <<Ev("insert", Some(mission), None, Some(data)),
                   Ev("commit", Some(mission), None, None)>>
           /\ pc' = "loop"
           /\ idx' = idx + 1
           /\ mission_id' = None
           /\ data' = <<>>
           /\ UNCHANGED history
    /\ UNCHANGED <<listing, tree, content, missoes, table_exists, todo, run,
                   edits>>

\* lines 117-132 and the return to the for loop (the locals are gone)
Persist ==
    /\ pc = "walk"
    /\ todo = {}
    /\ LET mission == listing[idx].name
           res     == insert_values(drone_mission, next_id, data)
       IN  IF data = <<>>
           THEN /\ pc' = "loop"
                /\ idx' = idx + 1
                /\ mission_id' = None
                /\ UNCHANGED <<drone_mission, next_id, data, trace, before,
                               history>>
           ELSE IF res.error          \* the statement fails, nothing commits
           THEN /\ trace' = trace \o
                      <<Ev("insert", Some(mission), None, Some(data)),
                        Ev("raise", Some(mission), None, None)>>
                /\ next_id' = res.next_id
                /\ pc' = "crashed"
                /\ history' = HistoryAtEnd
                /\ UNCHANGED <<drone_mission, idx, mission_id, data, before>>
           ELSE /\ before' = drone_mission
                /\ drone_mission' = res.rows
                /\ next_id' = res.next_id
                /\ trace' = trace \o
                      <<Ev("insert", Some(mission), None, Some(data)),
                        Ev("commit", Some(mission), None, None)>>
                /\ pc' = "loop"
                /\ idx' = idx + 1
                /\ mission_id' = None
                /\ data' = <<>>
                /\ UNCHANGED history
    /\ UNCHANGED <<listing, tree, content, missoes, table_exists, todo, run,
                   edits>>

\* lines 148-149: the listing is exhausted, conn.close()
Finish ==
    /\ pc = "loop"
    /\ idx > Len(listing)
    /\ pc' = "done"
    /\ history' = HistoryAtEnd
    /\ UNCHANGED <<listing, tree, content, missoes, table_exists,
                   drone_mission, next_id, idx, mission_id, todo, data, run,
                   edits, trace, before>>

----------------------------------------------------------------------------
(* The names, files, contents and tables the initial states are drawn from *)

MissionA   == <<"M","i","s","s","i","o","n","A">>
MissionB   == <<"M","i","s","s","i","o","n","B">>
missionC   == <<"m","i","s","s","i","o","n","C">>
OldMission == <<"O","l","d","M","i","s","s","i","o","n">>
MissionLog == <<"M","i","s","s","i","o","n",".","l","o","g">>
Sub        == <<"s","u","b">>

\* every path of a tree
PathsOf(t) ==
    UNION { { full_path_of(d, f) : f \in t[d] } : d \in DOMAIN t }

Dir(name)  == [name |-> name, isdir |-> TRUE]
File(name) == [name |-> name, isdir |-> FALSE]

\* the entries a base folder listing is made of
Entries == { Dir(MissionA), Dir(MissionB), Dir(missionC), File(MissionLog) }

Row1A == [id |-> 1, nome |-> MissionA]
Row2A == [id |-> 2, nome |-> MissionA]
Row3B == [id |-> 3, nome |-> MissionB]
\* missoes tables: a mission present once, twice (nome is not unique) or not
MissoesTables == { {Row1A}, {Row3B}, {Row1A, Row3B}, {Row1A, Row2A, Row3B} }

FileA     == [root |-> <<>>, name |-> <<"a",".","j","p","g">>]
FileB     == [root |-> <<Sub>>, name |-> <<"b",".","M","P","4">>]
FileD     == [root |-> <<>>, name |-> <<"d",".","p","n","g">>]
FileE     == [root |-> <<>>, name |-> <<"e",".","j","p","g">>]
Companion == [root |-> <<>>, name |-> <<"k",".","j","p","e","g">>]

Tree0 == [d \in { e.name : e \in Entries } |->
            IF d = MissionA THEN {FileA, FileB}
            ELSE IF d = MissionB THEN {FileD}
            ELSE IF d = missionC THEN {FileE}
            ELSE {}]

GeotaggedPhoto ==
    ImageFile(Gps(Some(<<38, 43, 12>>), Some("N"), Some(<<9, 8, 24>>),
                  Some("W"), Some(120)))
MovedPhoto ==
    ImageFile(Gps(Some(<<41, 9, 0>>), Some("N"), Some(<<8, 36, 36>>),
                  Some("W"), None))
Location1 == <<"+","4","0",".","1","2","3","4","-","0","0","8",".","5","6","7","8">>
GeotaggedVideo == VideoFile(TRUE, Json(Format(Tags(Some(Location1)))))
UntaggedVideo  == VideoFile(TRUE, Json(Format(Tags(None))))

Content0 ==
    [p \in PathsOf(Tree0) |->
        IF p = full_path_of(MissionA, FileB) THEN UntaggedVideo
        ELSE IF p = full_path_of(MissionB, FileD) THEN ImageFile(NoImg)
        ELSE GeotaggedPhoto]

\* what a file may yield after an upstream change
EditContents == { MovedPhoto, GeotaggedVideo }

\* file names of every class, in either case, with and without the dot
FileNames ==
    { <<"a",".","J","P","G">>, <<"a",".","j","p","e","g">>,
      <<"a",".","P","n","g">>, <<"a",".","m","p","4">>,
      <<".","M","O","V">>, <<"a",".","a","v","i">>,
      <<"a",".","m","k","v">>, <<"a",".","t","x","t">>,
      <<"a","j","p","g">>, <<"a",".","j","p","g",".","b","a","k">>,
      <<"a",".","m","p","4",".","j","p","g">> }

\* what opening or probing a file may yield
FileContents ==
    { Unreadable, ImageFile(NoImg), GeotaggedPhoto,
      ImageFile(Gps(Some(<<38, 43, 12>>), None, Some(<<9, 8, 24>>), None, None)),
      ImageFile(Gps(Some(<<38, 43>>), Some("S"), Some(<<9, 8, 24>>), Some("E"), None)),
      GeotaggedVideo, UntaggedVideo,
      VideoFile(FALSE, None),
      VideoFile(TRUE, Json(None)),
      VideoFile(TRUE, Json(Format(Tags(Some(<<>>))))),
      VideoFile(TRUE, Json(Format(Tags(Some(<<"+","4","0",".","1">>))))),
      VideoFile(TRUE, Json(Format(Tags(Some(<<"4","0",".","1","-","8",".","5">>))))),
      VideoFile(TRUE, Json(Format(Tags(Some(<<"-","0",".","5","+","1","0",".","2","5","/">>))))) }

\* EXIF GPS values
Triples   == { <<d, m, s>> : d \in {0, 41}, m \in {0, 59}, s \in {0, 30} }
LatRefs   == { Some("N"), Some("S"), Some("n") }
LonRefs   == { Some("E"), Some("W"), Some("e"), None }
Altitudes == { None, Some(120) }

\* the folder changes upstream between two runs: the file at one path now
\* yields something else when opened (line 26) or probed (line 53)
MetadataChange ==
    /\ pc \in {"done", "crashed"}
    /\ run < MaxRuns
    /\ edits < MaxEdits
    /\ \E k \in 1..Len(listing) : \E f \in tree[listing[k].name] :
         \E c \in EditContents :
           LET p == full_path_of(listing[k].name, f) IN
           /\ c # content[p]
           /\ content' = [content EXCEPT ![p] = c]
    /\ edits' = edits + 1
    /\ UNCHANGED <<listing, tree, missoes, table_exists, drone_mission,
                   next_id, pc, idx, mission_id, todo, data, run, trace,
                   before, history>>

Next ==
    \/ Start
    \/ SkipEntry
    \/ LookupFound
    \/ LookupNotFound
    \/ WalkFile
    \/ Persist
    \/ Finish
    \/ MetadataChange

----------------------------------------------------------------------------
(* Initial states: the program has not run, drone_mission does not exist.   *)
(* The base folder, the files and the missoes table are drawn from the sets *)
(* above.                                                                    *)

InitWith(l, t, c, m) ==
    /\ listing = l
    /\ tree = t
    /\ content = c
    /\ missoes = m
    /\ table_exists = FALSE
    /\ drone_mission = {}
    /\ next_id = 1
    /\ pc = "idle"
    /\ idx = 1
    /\ mission_id = None
    /\ todo = {}
    /\ data = <<>>
    /\ run = 0
    /\ edits = 0
    /\ trace = <<>>
    /\ before = {}
    /\ history = <<>>

\* sequences of at most n distinct entries
RECURSIVE Listings(_)
Listings(n) ==
    IF n = 0 THEN { <<>> }
    ELSE Listings(n - 1) \cup
         { Append(l, e) : <<l, e>> \in
             { <<l, e>> \in Listings(n - 1) \X Entries :
                 /\ Len(l) = n - 1
                 /\ \A k \in 1..Len(l) : l[k].name # e.name } }

\* the orchestration: any listing of the entries, any missoes table, the
\* files of Tree0
Init ==
    \E l \in Listings(MaxEntries) \ { <<>> } : \E m \in MissoesTables :
        InitWith(l, Tree0, Content0, m)

Spec == Init /\ [][Next]_vars

\* the walk: one mission folder holding a fixed geotagged photo and one file
\* of any name, place and content
InitWalk ==
    \E name \in FileNames : \E root \in { <<>>, <<Sub>> } :
    \E c \in FileContents : \E m \in { {}, {Row1A} } :
        LET subject == [root |-> root, name |-> name]
            t == [d \in {MissionA, OldMission} |->
                    IF d = MissionA THEN {Companion, subject} ELSE {FileE}]
        IN  InitWith(<<Dir(OldMission), Dir(MissionA)>>, t,
                     [p \in PathsOf(t) |->
                        IF p = full_path_of(MissionA, subject) THEN c
                        ELSE GeotaggedPhoto],
                     m)

SpecWalk == InitWalk /\ [][Next]_vars

\* the photo extractor: one mission folder holding one photo with any GPS
\* tags
InitPhoto ==
    \E lat \in Triples : \E lon \in Triples :
    \E lat_ref \in LatRefs : \E lon_ref \in LonRefs :
    \E alt \in Altitudes : \E m \in { {}, {Row1A} } :
        LET t == [d \in {MissionLog, MissionA} |->
                    IF d = MissionA THEN {FileA} ELSE {}] IN
        InitWith(<<File(MissionLog), Dir(MissionA)>>, t,
                 [p \in PathsOf(t) |->
                    ImageFile(Gps(Some(lat), lat_ref, Some(lon), lon_ref, alt))],
                 m)

SpecPhoto == InitPhoto /\ [][Next]_vars

----------------------------------------------------------------------------
(* Vocabulary of the properties *)

Running == pc \in {"loop", "walk"}
Stopped  == pc \in {"done", "crashed"}

IsExtract(e) == e.op \in {"photo", "video"}

\* the mission folder a path lies below
FolderOf(path) == path[2]

\* the name ends, in any case, with a photo / video suffix
PhotoName(n) == endswith_any(lower(n), PhotoSuffixes)
VideoName(n) == endswith_any(lower(n), VideoSuffixes)

Paths(rows) == { r.full_path : r \in rows }
RowsOfMission(rows, id) == { r \in rows : r.mission_id = id }

\* the folder has a row in missoes
Known(name) == \E m \in missoes : m.nome = name

\* the try block of the extractor called in event e raises on the file
Fails(e) ==
    \/ e.op = "photo" /\ PhotoTry(content[e.path[1]]).exc
    \/ e.op = "video" /\ VideoTry(content[e.path[1]]).exc

\* the last statement of the run is the commit of an INSERT
JustCommitted ==
    /\ Len(trace) >= 2
    /\ trace[Len(trace)].op = "commit"
    /\ trace[Len(trace) - 1].op = "insert"
\* the data list that INSERT was given
Inserted == trace[Len(trace) - 1].result[1]

----------------------------------------------------------------------------
(* C1: a run of process_all that follows another run, with the base folder *)
(* and missoes unchanged in between, ends with the same set of full_paths   *)
(* and the same number of rows per mission in drone_mission as the run      *)
(* before it ended with.                                                    *)
C1_RerunAddsNoRows ==
    \A k \in 2..Len(history) :
        history[k].edits = history[k - 1].edits =>
            /\ Paths(history[k].rows) = Paths(history[k - 1].rows)
            /\ \A m \in missoes :
                 Cardinality(RowsOfMission(history[k].rows, m.id)) =
                 Cardinality(RowsOfMission(history[k - 1].rows, m.id))

\* a second run over an unchanged folder has issued an INSERT for rows that
\* the first run had inserted
C1_Witness ==
    /\ Len(history) = 2
    /\ history[2].edits = history[1].edits
    /\ history[1].rows # {}
    /\ pc = "done"
    /\ \E j \in 1..Len(trace) : trace[j].op = "insert"

(* C2: when a lookup finds no row, the run still resolves every other       *)
(* mission folder of the listing that has a row in missoes.                 *)
C2_NotFoundAbortsThatMissionOnly ==
    (Stopped /\ \E j \in 1..Len(trace) :
                  trace[j].op = "select" /\ trace[j].result = None)
    => \A k \in 1..Len(listing) :
         (is_mission_folder(listing[k]) /\ Known(listing[k].name)) =>
             \E j \in 1..Len(trace) :
                 /\ trace[j].op = "select"
                 /\ trace[j].mission = Some(listing[k].name)
                 /\ trace[j].result # None

(* C3: for an entry of the base folder that is a regular file, or whose     *)
(* name does not start with "Mission", no run looks the entry up, calls an  *)
(* extractor on a file below it or inserts a row whose path is below it.    *)
C3_NonMissionEntriesUntouched ==
    \A k \in 1..Len(listing) :
        (~listing[k].isdir \/ ~startswith(listing[k].name, MissionPrefix)) =>
            /\ \A j \in 1..Len(trace) :
                 /\ trace[j].mission # Some(listing[k].name)
                 /\ trace[j].path # None =>
                        FolderOf(trace[j].path[1]) # listing[k].name
            /\ \A r \in drone_mission : FolderOf(r.full_path) # listing[k].name

\* a run that inserted rows has ended, and the listing holds a directory
\* with a geotagged photo whose name does not start with "Mission"
C3_Witness ==
    /\ pc = "done"
    /\ drone_mission # {}
    /\ \E k \in 1..Len(listing) :
         /\ listing[k].name = missionC
         /\ PhotoTry(content[full_path_of(missionC, FileE)]).val # None

(* C4: when none of the extractor calls of a mission returned coordinates,  *)
(* the step that ends the mission issues no statement (no INSERT, no        *)
(* commit) and leaves drone_mission and its id sequence as they were.       *)
C4_NoCoordinatesNoStatement ==
    [][ ( /\ pc = "walk" /\ todo = {} /\ pc' # "walk"
          /\ \A j \in 1..Len(trace) :
               (IsExtract(trace[j]) /\ trace[j].mission = Some(listing[idx].name))
                  => trace[j].result = None )
        => ( /\ trace' = trace
             /\ drone_mission' = drone_mission
             /\ next_id' = next_id ) ]_vars

\* a mission whose files were walked, one of them through an extractor, has
\* ended without a statement
C4_Witness ==
    /\ pc = "loop"
    /\ idx > 1
    /\ tree[listing[idx - 1].name] # {}
    /\ trace[Len(trace)].mission = Some(listing[idx - 1].name)
    /\ IsExtract(trace[Len(trace)])
    /\ trace[Len(trace)].result = None

(* C5: no exception leaves an extractor: a file on which the extractor's    *)
(* try block raises yields no data and no record, every other photo or      *)
(* video of the mission is still handed to an extractor, and every file     *)
(* that yielded coordinates is in the data list and in the INSERT.          *)
C5_ExtractionFailuresStayLocal ==
    /\ \A j \in 1..Len(trace) : trace[j].op = "raise" => trace[j].path = None
    /\ Running =>
         \A j \in 1..Len(trace) :
            (IsExtract(trace[j]) /\ Fails(trace[j])) =>
                /\ trace[j].result = None
                /\ \A k \in 1..Len(data) : data[k][1] # trace[j].path[1]
    /\ (pc = "walk" /\ todo = {}) =>
         \A f \in tree[listing[idx].name] :
            (PhotoName(f.name) \/ VideoName(f.name)) =>
                \E j \in 1..Len(trace) :
                    /\ IsExtract(trace[j])
                    /\ trace[j].path = Some(full_path_of(listing[idx].name, f))
                    /\ trace[j].result # None =>
                           \E k \in 1..Len(data) : data[k][1] = trace[j].path[1]
    /\ \A j \in 1..Len(trace) :
         trace[j].op = "insert" =>
            \A i \in 1..(j - 1) :
               ( /\ IsExtract(trace[i])
                 /\ trace[i].mission = trace[j].mission
                 /\ trace[i].result # None ) =>
                   \E k \in 1..Len(trace[j].result[1]) :
                       trace[j].result[1][k][1] = trace[i].path[1]

\* the walk of a mission is over: an extractor failed on one file, a file
\* visited after it yielded coordinates and is in the data list
C5_Witness ==
    /\ pc = "walk"
    /\ todo = {}
    /\ \E i \in 1..Len(trace) : \E j \in (i + 1)..Len(trace) :
         /\ IsExtract(trace[i]) /\ Fails(trace[i])
         /\ IsExtract(trace[j]) /\ trace[j].result # None
         /\ \E k \in 1..Len(data) : data[k][1] = trace[j].path[1]

(* C6: after an INSERT has committed, every row that was in drone_mission   *)
(* before it is still there with the same value in every column, also when  *)
(* the INSERT carried a record with its full_path, and every record of the  *)
(* INSERT with a path that was not in the table is now a row with that      *)
(* record's values.                                                         *)
C6_ConflictKeepsExistingRow ==
    JustCommitted =>
        /\ \A r \in before : r \in drone_mission
        /\ \A k \in 1..Len(Inserted) :
             LET d == Inserted[k] IN
             d[1] \notin Paths(before) =>
                \E r \in drone_mission :
                    /\ r.full_path = d[1]
                    /\ r.file_name = d[2]
                    /\ r.media_type = d[3]
                    /\ r.altitude = d[6]
                    /\ r.geom.x = d[5] /\ r.geom.y = d[4]
                    /\ r.mission_id = d[7]
        /\ \A r \in drone_mission \ before :
             \E k \in 1..Len(Inserted) : Inserted[k][1] = r.full_path

\* an INSERT has committed that carried a record for an existing path with
\* another mission_id or other coordinates, and a record with a new path
C6_Witness ==
    /\ JustCommitted
    /\ \E k \in 1..Len(Inserted) : \E r \in before :
         /\ r.full_path = Inserted[k][1]
         /\ \/ r.mission_id # Inserted[k][7]
            \/ r.geom.y # Inserted[k][4]
    /\ \E k \in 1..Len(Inserted) : Inserted[k][1] \notin Paths(before)

(* C7: every row of drone_mission has the id of a missoes row whose nome is *)
(* the mission folder of the row's path; for a folder without a missoes row *)
(* no extractor is called, no INSERT is issued and no row exists.           *)
C7_RowsReferenceTheirMission ==
    /\ \A r \in drone_mission :
         \E m \in missoes :
             m.id = r.mission_id /\ m.nome = FolderOf(r.full_path)
    /\ \A j \in 1..Len(trace) :
         trace[j].op \in {"photo", "video", "insert", "commit"} =>
             Known(trace[j].mission[1])
    /\ \A j \in 1..Len(trace) :
         (trace[j].op = "select" /\ ~Known(trace[j].mission[1])) =>
             /\ trace[j].result = None
             /\ j + 1 = Len(trace)
             /\ trace[j + 1].op = "raise"

\* the lookup of a folder without a missoes row has failed in a run that
\* had inserted rows for another mission
C7_Witness ==
    /\ pc = "crashed"
    /\ trace[Len(trace)].op = "raise"
    /\ \E j \in 1..Len(trace) : trace[j].op = "commit"
    /\ drone_mission # {}

(* C8: the statements of a run start with the one table creation, and the   *)
(* missions follow one another: a mission's extractor calls come after its  *)
(* lookup, its INSERT after them, its commit right after the INSERT, and    *)
(* the next lookup only after all of these.                                 *)
C8_CreateOnceThenMissionsInSequence ==
    /\ run > 0 => (Len(trace) >= 1 /\ trace[1].op = "create")
    /\ \A j \in 2..Len(trace) :
         LET e == trace[j]
             q == trace[j - 1]
         IN  /\ e.op # "create"
             /\ e.op = "select" =>
                  /\ q.op \in {"create", "commit", "select", "photo", "video"}
                  /\ \A i \in 1..(j - 1) : trace[i].mission # e.mission
                  /\ \A i \in 1..(j - 1) :
                       trace[i].op = "insert" =>
                          (i + 1 < j /\ trace[i + 1].op = "commit")
             /\ IsExtract(e) =>
                  /\ q.mission = e.mission
                  /\ (q.op = "select" /\ q.result # None) \/ IsExtract(q)
             /\ e.op = "insert" =>
                  /\ q.mission = e.mission
                  /\ IsExtract(q)
             /\ e.op = "commit" =>
                  /\ q.mission = e.mission
                  /\ q.op = "insert"
    /\ pc = "done" => trace[Len(trace)].op # "insert"

\* a run over two mission folders has ended, the first with an INSERT
C8_Witness ==
    /\ pc = "done"
    /\ \E i \in 1..Len(trace) : \E j \in (i + 1)..Len(trace) :
         /\ trace[i].op = "commit"
         /\ trace[j].op = "select"
         /\ trace[j].result # None

(* C9: a file whose lower-cased name ends in .jpg, .jpeg or .png goes to    *)
(* the photo extractor, one whose name ends in .mp4, .mov, .avi or .mkv to  *)
(* the video extractor, any other file to none and yields no record; no     *)
(* file is extracted twice; a record's media_type is the class of its name. *)
C9_ClassifiedBySuffix ==
    /\ \A j \in 1..Len(trace) :
         /\ trace[j].op = "photo" =>
               PhotoName(trace[j].path[1][Len(trace[j].path[1])])
         /\ trace[j].op = "video" =>
               /\ VideoName(trace[j].path[1][Len(trace[j].path[1])])
               /\ ~PhotoName(trace[j].path[1][Len(trace[j].path[1])])
         /\ IsExtract(trace[j]) =>
               \A i \in 1..(j - 1) : trace[i].path # trace[j].path
    /\ pc = "walk" =>
         \A f \in tree[listing[idx].name] \ todo :
            LET p == full_path_of(listing[idx].name, f)
                calls == { j \in 1..Len(trace) : trace[j].path = Some(p) }
            IN  /\ PhotoName(f.name) =>
                     (Cardinality(calls) = 1 /\
                      \A j \in calls : trace[j].op = "photo")
                /\ (VideoName(f.name) /\ ~PhotoName(f.name)) =>
                     (Cardinality(calls) = 1 /\
                      \A j \in calls : trace[j].op = "video")
                /\ (~PhotoName(f.name) /\ ~VideoName(f.name)) =>
                     /\ calls = {}
                     /\ \A k \in 1..Len(data) : data[k][1] # p
    /\ \A k \in 1..Len(data) :
         /\ data[k][3] \in {"photo", "video"}
         /\ data[k][3] = "photo" <=> PhotoName(data[k][2])
         /\ data[k][3] = "video" => VideoName(data[k][2])
    /\ \A r \in drone_mission :
         /\ r.media_type \in {"photo", "video"}
         /\ r.media_type = "photo" <=> PhotoName(r.file_name)
         /\ r.media_type = "video" => VideoName(r.file_name)

\* the walk of a mission is over; a file with an upper-case photo suffix
\* went to the photo extractor and is in the data list as a photo
C9_Witness ==
    /\ pc = "walk"
    /\ todo = {}
    /\ \E k \in 1..Len(data) :
         /\ data[k][3] = "photo"
         /\ ~endswith_any(data[k][2], PhotoSuffixes)

(* C10: a photo record's latitude is s * (deg + min/60 + sec/3600) of the   *)
(* file's latitude triple, with s = 1 when the latitude reference is 'N'    *)
(* and -1 for any other value; its longitude likewise with 'E'; its         *)
(* altitude is the file's altitude, or absent.                              *)
C10_DmsToSignedDecimal ==
    pc = "walk" =>
        \A k \in 1..Len(data) :
            LET d   == data[k]
                img == content[d[1]].img
                lat == img.gps_latitude[1]
                lon == img.gps_longitude[1]
                s_lat == IF img.gps_latitude_ref = Some("N") THEN 1 ELSE -1
                s_lon == IF img.gps_longitude_ref = Some("E") THEN 1 ELSE -1
            IN  d[3] = "photo" =>
                  /\ d[4].den > 0 /\ d[5].den > 0
                  /\ 3600 * d[4].num =
                       d[4].den * s_lat * (3600 * lat[1] + 60 * lat[2] + lat[3])
                  /\ 3600 * d[5].num =
                       d[5].den * s_lon * (3600 * lon[1] + 60 * lon[2] + lon[3])
                  /\ d[6] = img.gps_altitude

\* a photo with a latitude reference other than 'N' and 'S', longitude
\* reference 'E' and an altitude has yielded a record
C10_Witness ==
    /\ pc = "walk"
    /\ \E k \in 1..Len(data) :
         LET img == content[data[k][1]].img IN
         /\ data[k][3] = "photo"
         /\ img.gps_latitude_ref = Some("n")
         /\ img.gps_longitude_ref = Some("E")
         /\ img.gps_altitude # None
         /\ data[k][4].num < 0
         /\ data[k][5].num > 0

====
